---- MODULE Spec2Model ----
(***************************************************************************)
(* Model of hex::LoaderScript (source/helpers/loader_script_handler.cpp):  *)
(* the lifecycle of the embedded Python runtime in processFile, and the    *)
(* host API a loader script calls while it runs (get_file_path, patch,     *)
(* add_bookmark, add_struct, add_union).                                   *)
(*                                                                         *)
(* Python values are records [t |-> tag, v |-> value]; an argument tuple   *)
(* is a sequence of them.  64-bit quantities are scaled to WordBits bits:  *)
(* u64 becomes 0 .. 2^WordBits - 1 and Py_ssize_t becomes                  *)
(* -2^(WordBits-1) .. 2^(WordBits-1) - 1, so that the signed/unsigned      *)
(* boundary is inside the values the model enumerates.                     *)
(***************************************************************************)
EXTENDS Integers, Sequences, FiniteSets, TLC

\* ------------------------------------------------------------------ bounds
ProviderSize == 2
MaxLen == 2
MaxByte == 1
MaxMembers == 2
MaxRuns == 2
WordBits == 3

VARIABLES
    pc,          \* position of the thread inside processFile ("idle" outside it)
    runs,        \* number of processFile invocations started
    inittab,     \* PyImport_Inittab: names registered with PyImport_AppendInittab
    initialized, \* whether the Python runtime is initialized
    sysPath,     \* sys.path of the runtime
    builtins,    \* names of the built-in modules the running runtime took from inittab
    scriptFile,  \* the FILE* of processFile: "none", "NULL", "open", "closed"
    executed,    \* whether the current invocation executed script code
    exitPath,    \* how the script of the current invocation ended
    result,      \* value last returned by processFile: "none", "true", "false"
    pyErr,       \* pending Python exception raised by the last host API call
    provider,    \* bytes of the data provider, offsets 0 .. ProviderSize-1
    posted,      \* events posted to View::postEvent by the host API call in lastCall
    lastCall     \* the host API call the script has just made: operation, arguments,
                 \* outcome; NoCall once the script has moved on

vars == <<pc, runs, inittab, initialized, sysPath, builtins, scriptFile, executed,
          exitPath, result, pyErr, provider, posted, lastCall>>

\* ------------------------------------------------------------ value ranges
RECURSIVE Pow2(_)
Pow2(n) == IF n = 0 THEN 1 ELSE 2 * Pow2(n - 1)

U64Mod == Pow2(WordBits)
U64Max == U64Mod - 1
SSizeMax == Pow2(WordBits - 1) - 1

Bytes == 0 .. MaxByte

\* byte strings of length exactly n, of length at most n
BytesOfLen(n) == [1 .. n -> Bytes]
BytesUpTo(n) == UNION {BytesOfLen(k) : k \in 0 .. n}

PyInt(n) == [t |-> "int", v |-> n]
PyBytes(b) == [t |-> "bytes", v |-> b]
PyStr(s) == [t |-> "str", v |-> s]
PyClass(c) == [t |-> "class", v |-> c]

NoError == "none"
BadArgument == "TypeError: bad argument type for built-in operation"
InvalidPatch == "TypeError: Invalid patch provided"
OutOfRange == "IndexError: address out of range"
NotImHexType == "TypeError: class type must extend from ImHexType"
MemberNotImHexType == "TypeError: member needs to have a annotation extending from ImHexType"

NoCall == [op |-> "none", args |-> <<>>, ret |-> "none", err |-> NoError,
           before |-> <<>>]

\* ------------------------------------------------------------ data provider
\* getActualSize(): the number of bytes of the provider
getActualSize(p) == Len(p)

\* write(address, buffer, size): a bounded write; offsets of the provider that
\* lie in [address, address+size) take the buffer's bytes, offsets at or
\* beyond the provider's size are not stored.  Offsets are 0-based, the
\* sequence p is 1-based.
write(p, address, buffer, size) ==
    [i \in 1 .. Len(p) |->
        IF i - 1 >= address /\ i - 1 < address + size
        THEN buffer[i - address]
        ELSE p[i]]

\* ------------------------------------------------------------------- patch
\* PyArg_ParseTuple(args, "K|y#", &address, &patches, &count): one required
\* unsigned long long (no overflow check, reduced modulo 2^64) and one
\* optional bytes object.  A variable whose argument is absent keeps the
\* value it had: the locals are uninitialized, so that value is `garbage'.
ParsePatchArgs(args, garbage) ==
    IF Len(args) < 1 \/ Len(args) > 2 THEN [ok |-> FALSE]
    ELSE IF args[1].t # "int" THEN [ok |-> FALSE]
    ELSE IF Len(args) = 2 /\ args[2].t # "bytes" THEN [ok |-> FALSE]
    ELSE [ok |-> TRUE,
          address |-> args[1].v % U64Mod,
          patches |-> IF Len(args) = 2
                      THEN [kind |-> "valid", data |-> args[2].v]
                      ELSE garbage.patches,
          count |-> IF Len(args) = 2 THEN Len(args[2].v) ELSE garbage.count]

\* line 32
InvalidPatchProvided(patches, count) == patches.kind = "null" \/ count = 0

\* line 37
AddressOutOfRangeInclusive(address, size) == address > size
AddressOutOfRange(address, size) == address >= size

\* Py_addPatch without the write of line 42
Py_addPatchNoWrite(args, garbage, p) ==
    LET a == ParsePatchArgs(args, garbage) IN
    IF ~a.ok THEN [ret |-> "NULL", err |-> BadArgument, provider |-> p]
    ELSE IF InvalidPatchProvided(a.patches, a.count)
        THEN [ret |-> "NULL", err |-> InvalidPatch, provider |-> p]
    ELSE IF AddressOutOfRange(a.address, getActualSize(p))
        THEN [ret |-> "NULL", err |-> OutOfRange, provider |-> p]
    ELSE [ret |-> "None", err |-> NoError, provider |-> p]

\* The outcome of Py_addPatch on provider p: the value returned, the exception
\* set, and the provider afterwards.  Reading through a pointer that was never
\* set and does not point to readable memory ends the process ("crash").
Py_addPatch(args, garbage, p) ==
    LET a == ParsePatchArgs(args, garbage) IN
    IF ~a.ok THEN [ret |-> "NULL", err |-> BadArgument, provider |-> p]
    ELSE IF InvalidPatchProvided(a.patches, a.count)
        THEN [ret |-> "NULL", err |-> InvalidPatch, provider |-> p]
    ELSE IF AddressOutOfRange(a.address, getActualSize(p))
        THEN [ret |-> "NULL", err |-> OutOfRange, provider |-> p]
    ELSE IF a.patches.kind = "wild"
        THEN [ret |-> "crash", err |-> NoError, provider |-> p]
    ELSE [ret |-> "None", err |-> NoError,
          provider |-> write(p, a.address, a.patches.data, a.count)]

\* what the uninitialized locals `patches' and `count' may hold
Garbage ==
    {[patches |-> [kind |-> "null", data |-> <<>>], count |-> c] : c \in 0 .. MaxLen}
    \cup {[patches |-> [kind |-> "wild", data |-> <<>>], count |-> c] : c \in 0 .. MaxLen}
    \cup {[patches |-> [kind |-> "valid", data |-> d], count |-> c] :
            d \in BytesOfLen(MaxLen), c \in 0 .. MaxLen}

PatchAddresses == (0 .. ProviderSize + 1) \cup {U64Max}

PatchArgs ==
    {<<>>}
    \cup {<<PyInt(a)>> : a \in PatchAddresses}
    \cup {<<PyInt(a), PyBytes(b)>> : a \in PatchAddresses, b \in BytesUpTo(MaxLen)}
    \cup {<<PyInt(0), PyStr("x")>>, <<PyStr("x"), PyBytes(<<>>)>>}

\* ------------------------------------------------------------ get_file_path
\* LoaderScript::s_filePath, set by the caller before processFile
s_filePath == "file.bin"

Py_getFilePath == [ret |-> s_filePath, err |-> NoError, events |-> <<>>]

\* ------------------------------------------------------------- add_bookmark
\* a char*: <<>> is nullptr, <<s>> points to the NUL-terminated string s
NullPtr == <<>>
Ptr(s) == <<s>>

\* the converter "n": a Python int that fits Py_ssize_t, else OverflowError
FitsSsize(n) == n >= -(SSizeMax + 1) /\ n <= SSizeMax

\* PyArg_ParseTuple(args, "K|n|s|s", &address, &size, &name, &comment): every
\* `|' sets the number of required arguments to the number of converters
\* before it, so the last one decides: address, size and name are required,
\* comment is optional.  name and comment start as nullptr.
ParseBookmarkArgs(args) ==
    IF Len(args) < 3 \/ Len(args) > 4 THEN [ok |-> FALSE]
    ELSE IF args[1].t # "int" THEN [ok |-> FALSE]
    ELSE IF args[2].t # "int" \/ ~FitsSsize(args[2].v) THEN [ok |-> FALSE]
    ELSE IF args[3].t # "str" THEN [ok |-> FALSE]
    ELSE IF Len(args) = 4 /\ args[4].t # "str" THEN [ok |-> FALSE]
    ELSE [ok |-> TRUE,
          address |-> args[1].v % U64Mod,
          size |-> args[2].v,
          name |-> Ptr(args[3].v),
          comment |-> IF Len(args) = 4 THEN Ptr(args[4].v) ELSE NullPtr]

\* std::copy(s, s + strlen(s), back_inserter(v)): the characters of s
CopyChars(ptr) == ptr[1]

Py_addBookmark(args) ==
    LET a == ParseBookmarkArgs(args) IN
    IF ~a.ok THEN [ret |-> "NULL", err |-> BadArgument, events |-> <<>>]
    ELSE IF a.name = NullPtr \/ a.comment = NullPtr
        THEN [ret |-> "NULL", err |-> OutOfRange, events |-> <<>>]
    ELSE [ret |-> "None", err |-> NoError,
          events |-> << [type |-> "AddBookmark",
                         address |-> a.address,
                         size |-> a.size,
                         name |-> CopyChars(a.name),
                         comment |-> CopyChars(a.comment)] >>]

BookmarkAddresses == {0, U64Max}
BookmarkSizes == {0, SSizeMax, SSizeMax + 1, U64Max}
BookmarkNames == {"main"}
BookmarkComments == {"", "entry"}

BookmarkArgs ==
    {<<>>}
    \cup {<<PyInt(a)>> : a \in BookmarkAddresses}
    \cup {<<PyInt(a), PyInt(s)>> : a \in BookmarkAddresses, s \in BookmarkSizes}
    \cup {<<PyInt(a), PyInt(s), PyStr(n)>> :
            a \in BookmarkAddresses, s \in BookmarkSizes, n \in BookmarkNames}
    \cup {<<PyInt(a), PyInt(s), PyStr(n), PyStr(c)>> :
            a \in BookmarkAddresses, s \in BookmarkSizes, n \in BookmarkNames,
            c \in BookmarkComments}
    \cup {<<PyInt(0), PyInt(0), PyInt(0), PyStr("")>>}

\* ------------------------------------------------- add_struct / add_union
\* A guest class: its tp_name, the tp_name of its tp_base ("none" when tp_base
\* is NULL, which holds of `object' alone), whether calling it with no
\* arguments yields an instance, and the items of its __annotations__ in
\* insertion order (a sequence of <<member name, member type>>), wrapped in a
\* one-element sequence; <<>> when the class dict has no __annotations__.
MarkerName == "ImHexType"

\* the classes a member can be annotated with
MemberTypes ==
    {[name |-> "u8", base |-> MarkerName, instantiable |-> TRUE],
     [name |-> "u32", base |-> MarkerName, instantiable |-> TRUE],
     [name |-> "Plain", base |-> "object", instantiable |-> TRUE],
     [name |-> "NeedsArg", base |-> MarkerName, instantiable |-> FALSE]}

MemberNames == {"x", "y", "z"}

RECURSIVE DistinctNames(_)
DistinctNames(list) ==
    \/ list = <<>>
    \/ /\ \A k \in 2 .. Len(list) : list[k][1] # list[1][1]
       /\ DistinctNames(Tail(list))

\* dict items: keys are distinct
AnnotationLists ==
    {list \in UNION {[1 .. n -> MemberNames \X MemberTypes] : n \in 0 .. MaxMembers} :
        DistinctNames(list)}

ObjectClass ==
    [name |-> "object", base |-> "none", instantiable |-> TRUE, annotations |-> <<>>]

GuestClasses ==
    {ObjectClass}
    \cup {[name |-> "C", base |-> b, instantiable |-> inst, annotations |-> ann] :
            b \in {"object", MarkerName}, inst \in BOOLEAN,
            ann \in {<<>>} \cup {<<list>> : list \in AnnotationLists}}

\* PyObject_CallObject(type, nullptr): an instance, or NULL with an exception
Instantiates(type) == type.t = "class" /\ type.v.instantiable

\* lines 86 and 123: tp_base == nullptr || tp_base->tp_name != "ImHexType"
ExtendsAnything(base) == base # "none"
ExtendsImHexType(base) == base # "none" /\ base = MarkerName

\* line 130
MemberLineSwapped(typeName, memberName) ==
    "   " \o memberName \o " " \o typeName \o ";\n"
MemberLine(typeName, memberName) ==
    "   " \o typeName \o " " \o memberName \o ";\n"

\* lines 113-133: the loop over the annotation items from index i (0-based),
\* with the text built so far.  On a member type that cannot be instantiated
\* the code calls Py_DECREF on a null pointer: undefined behaviour, which
\* either ends the process or goes by unnoticed (`ub').
RECURSIVE MembersLoop(_, _, _, _)
MembersLoop(list, i, code, ub) ==
    IF ~(i < Len(list)) THEN [ret |-> "None", err |-> NoError, code |-> code]
    ELSE LET memberName == list[i + 1][1]
             memberType == list[i + 1][2]
         IN  IF ~memberType.instantiable
             THEN [ret |-> IF ub = "crash" THEN "crash" ELSE "NULL",
                   err |-> MemberNotImHexType, code |-> code]
             ELSE IF ~ExtendsImHexType(memberType.base)
             THEN [ret |-> "NULL", err |-> MemberNotImHexType, code |-> code]
             ELSE MembersLoop(list, i + 1,
                              code \o MemberLine(memberType.name, memberName), ub)

createStructureType(keyword, args, ub) ==
    IF Len(args) = 0
    THEN [ret |-> "NULL", err |-> BadArgument, events |-> <<>>]
    ELSE LET type == args[1] IN
    IF ~Instantiates(type)
    THEN [ret |-> "NULL", err |-> BadArgument, events |-> <<>>]
    ELSE IF ~ExtendsImHexType(type.v.base)
    THEN [ret |-> "NULL", err |-> NotImHexType, events |-> <<>>]
    ELSE IF type.v.annotations = <<>>
    THEN [ret |-> "NULL", err |-> BadArgument, events |-> <<>>]
    ELSE LET list == type.v.annotations[1]
             loop == MembersLoop(list, 0, keyword \o " " \o type.v.name \o " {\n", ub)
         IN  IF loop.ret # "None"
             THEN [ret |-> loop.ret, err |-> loop.err, events |-> <<>>]
             ELSE [ret |-> "None", err |-> NoError,
                   events |-> << [type |-> "AppendPatternLanguageCode",
                                  code |-> loop.code \o "};\n"] >>]

Py_addStruct(args, ub) == createStructureType("struct", args, ub)

Py_addUnion(args, ub) == createStructureType("union", args, ub)

StructArgs == {<<>>, <<PyInt(0)>>} \cup {<<PyClass(c)>> : c \in GuestClasses}

UndefinedOutcomes == {"crash", "continue"}

\* ------------------------------------------------------------- processFile
Range(f) == {f[i] : i \in DOMAIN f}

\* PyImport_AppendInittab(name, initfunc): one more entry at the end of the table
PyImport_AppendInittabIfAbsent(tab, name) ==
    IF name \in Range(tab) THEN tab ELSE Append(tab, name)
PyImport_AppendInittab(tab, name) == Append(tab, name)

\* sys.path of a freshly initialized runtime
DefaultSysPath == <<"stdlib">>

\* PyList_Insert(list, 0, item)
PyList_InsertFront(list, item) == <<item>> \o list

Init ==
    /\ pc = "idle"
    /\ runs = 0
    /\ inittab = <<>>
    /\ initialized = FALSE
    /\ sysPath = <<>>
    /\ builtins = {}
    /\ scriptFile = "none"
    /\ executed = FALSE
    /\ exitPath = "none"
    /\ result = "none"
    /\ pyErr = NoError
    /\ provider \in BytesOfLen(ProviderSize)
    /\ posted = <<>>
    /\ lastCall = NoCall

\* lines 150-176: entry, program name and home, registration of the module
RegisterModule ==
    /\ pc = "idle"
    /\ runs < MaxRuns
    /\ pc' = "registered"
    /\ runs' = runs + 1
    /\ inittab' = PyImport_AppendInittab(inittab, "_imhex")
    /\ scriptFile' = "none"
    /\ executed' = FALSE
    /\ exitPath' = "none"
    /\ result' = "none"
    /\ posted' = <<>>
    /\ lastCall' = NoCall
    /\ UNCHANGED <<initialized, sysPath, builtins, pyErr, provider>>

\* lines 178-185: Py_Initialize and the insertion of "lib" into sys.path
InitializeRuntime ==
    /\ pc = "registered"
    /\ pc' = "initialized"
    /\ initialized' = TRUE
    /\ builtins' = Range(inittab)
    /\ sysPath' = PyList_InsertFront(DefaultSysPath, "lib")
    /\ UNCHANGED <<runs, inittab, scriptFile, executed, exitPath, result,
                   pyErr, provider, posted, lastCall>>

\* line 187: fopen(scriptPath, "r")
OpenScript ==
    /\ pc = "initialized"
    /\ \E openable \in BOOLEAN :
          scriptFile' = IF openable THEN "open" ELSE "NULL"
    /\ pc' = "opened"
    /\ UNCHANGED <<runs, inittab, initialized, sysPath, builtins, executed,
                   exitPath, result, pyErr, provider, posted, lastCall>>

\* line 188, the file is open: the script starts to execute
StartScript ==
    /\ pc = "opened"
    /\ scriptFile = "open"
    /\ pc' = "running"
    /\ executed' = TRUE
    /\ UNCHANGED <<runs, inittab, initialized, sysPath, builtins, scriptFile,
                   exitPath, result, pyErr, provider, posted, lastCall>>

\* line 188, the file is NULL: PyRun_SimpleFile reads from a null FILE*, which
\* is undefined: the process ends there, or the call fails and returns
RunNullFile ==
    /\ pc = "opened"
    /\ scriptFile = "NULL"
    /\ \E ub \in UndefinedOutcomes :
          /\ pc' = IF ub = "crash" THEN "crashed" ELSE "ran"
          /\ exitPath' = IF ub = "crash" THEN exitPath ELSE "openFailed"
    /\ UNCHANGED <<runs, inittab, initialized, sysPath, builtins, scriptFile,
                   executed, result, pyErr, provider, posted, lastCall>>

\* a host API function can be called: the script is executing a statement,
\* no exception is pending and the runtime holds the module
ScriptCanCall ==
    /\ pc = "running"
    /\ pyErr = NoError
    /\ lastCall = NoCall
    /\ "_imhex" \in builtins

\* the state after a host API call `op' with arguments `args' whose outcome is
\* `out', leaving the provider as `p' and having posted `events'
ApiReturn(op, args, out, p, events) ==
    /\ lastCall' = [op |-> op, args |-> args, ret |-> out.ret, err |-> out.err,
                    before |-> provider]
    /\ provider' = p
    /\ posted' = events
    /\ pyErr' = IF out.ret = "NULL" THEN out.err ELSE NoError
    /\ pc' = IF out.ret = "crash" THEN "crashed" ELSE pc
    /\ UNCHANGED <<runs, inittab, initialized, sysPath, builtins, scriptFile,
                   executed, exitPath, result>>

CallGetFilePath ==
    /\ ScriptCanCall
    /\ ApiReturn("get_file_path", <<>>, Py_getFilePath, provider,
                 Py_getFilePath.events)

CallPatch ==
    /\ ScriptCanCall
    /\ \E args \in PatchArgs, garbage \in Garbage :
          LET out == Py_addPatch(args, garbage, provider)
          IN  ApiReturn("patch", args, out, out.provider, <<>>)

CallAddBookmark ==
    /\ ScriptCanCall
    /\ \E args \in BookmarkArgs :
          LET out == Py_addBookmark(args)
          IN  ApiReturn("add_bookmark", args, out, provider, out.events)

CallAddStruct ==
    /\ ScriptCanCall
    /\ \E args \in StructArgs, ub \in UndefinedOutcomes :
          LET out == Py_addStruct(args, ub)
          IN  ApiReturn("add_struct", args, out, provider, out.events)

CallAddUnion ==
    /\ ScriptCanCall
    /\ \E args \in StructArgs, ub \in UndefinedOutcomes :
          LET out == Py_addUnion(args, ub)
          IN  ApiReturn("add_union", args, out, provider, out.events)

\* the script goes on to its next statement after a call that returned
ScriptContinues ==
    /\ pc = "running"
    /\ pyErr = NoError
    /\ lastCall # NoCall
    /\ lastCall' = NoCall
    /\ posted' = <<>>
    /\ UNCHANGED <<pc, runs, inittab, initialized, sysPath, builtins, scriptFile,
                   executed, exitPath, result, pyErr, provider>>

\* the script catches the exception a host API call raised and goes on
GuestHandlesError ==
    /\ pc = "running"
    /\ pyErr # NoError
    /\ pyErr' = NoError
    /\ lastCall' = NoCall
    /\ posted' = <<>>
    /\ UNCHANGED <<pc, runs, inittab, initialized, sysPath, builtins, scriptFile,
                   executed, exitPath, result, provider>>

\* the exception is not handled: PyRun_SimpleFile reports it, clears it and returns
ScriptAborts ==
    /\ pc = "running"
    /\ pyErr # NoError
    /\ pyErr' = NoError
    /\ pc' = "ran"
    /\ exitPath' = "guestError"
    /\ lastCall' = NoCall
    /\ posted' = <<>>
    /\ UNCHANGED <<runs, inittab, initialized, sysPath, builtins, scriptFile,
                   executed, result, provider>>

\* the script runs to its end
ScriptCompletes ==
    /\ pc = "running"
    /\ pyErr = NoError
    /\ pc' = "ran"
    /\ exitPath' = "normal"
    /\ lastCall' = NoCall
    /\ posted' = <<>>
    /\ UNCHANGED <<runs, inittab, initialized, sysPath, builtins, scriptFile,
                   executed, result, pyErr, provider>>

\* line 190: fclose(scriptFile) of an open file
CloseScript ==
    /\ pc = "ran"
    /\ scriptFile = "open"
    /\ scriptFile' = "closed"
    /\ pc' = "closed"
    /\ UNCHANGED <<runs, inittab, initialized, sysPath, builtins, executed,
                   exitPath, result, pyErr, provider, posted, lastCall>>

\* line 190: fclose(NULL) is undefined: the process ends there, or nothing happens
CloseNullFile ==
    /\ pc = "ran"
    /\ scriptFile = "NULL"
    /\ \E ub \in UndefinedOutcomes :
          pc' = IF ub = "crash" THEN "crashed" ELSE "closed"
    /\ UNCHANGED <<runs, inittab, initialized, sysPath, builtins, scriptFile,
                   executed, exitPath, result, pyErr, provider, posted,
                   lastCall>>

\* line 192: Py_Finalize
FinalizeRuntime ==
    /\ pc = "closed"
    /\ pc' = "finalized"
    /\ initialized' = FALSE
    /\ builtins' = {}
    /\ sysPath' = <<>>
    /\ UNCHANGED <<runs, inittab, scriptFile, executed, exitPath, result,
                   pyErr, provider, posted, lastCall>>

\* line 194: return true
Return ==
    /\ pc = "finalized"
    /\ pc' = "idle"
    /\ result' = "true"
    /\ UNCHANGED <<runs, inittab, initialized, sysPath, builtins, scriptFile,
                   executed, exitPath, pyErr, provider, posted, lastCall>>

Next ==
    \/ RegisterModule
    \/ InitializeRuntime
    \/ OpenScript
    \/ StartScript
    \/ RunNullFile
    \/ CallGetFilePath
    \/ CallPatch
    \/ CallAddBookmark
    \/ CallAddStruct
    \/ CallAddUnion
    \/ ScriptContinues
    \/ GuestHandlesError
    \/ ScriptAborts
    \/ ScriptCompletes
    \/ CloseScript
    \/ CloseNullFile
    \/ FinalizeRuntime
    \/ Return

Spec == Init /\ [][Next]_vars

\* ---------------------------------------------------------- error taxonomy
\* The error classes of the specification, as sets of the exceptions the code
\* raises: an argument error is a failed parse or an unusable argument, a
\* range error an address outside the provider, a type error a class or a
\* member type that does not extend the marker.
ArgumentError == {BadArgument, InvalidPatch}
RangeError == {OutOfRange}
TypeError == {NotImHexType, MemberNotImHexType}

\* ------------------------------------------------------------------ claims
IsPatchWithBuffer ==
    /\ lastCall.op = "patch"
    /\ Len(lastCall.args) = 2
    /\ lastCall.args[1].t = "int"
    /\ lastCall.args[2].t = "bytes"

PatchAddress == lastCall.args[1].v
PatchBuffer == lastCall.args[2].v
SizeBefore == Len(lastCall.before)

\* C1: every processFile invocation that initialized the runtime has finalized
\* it when the invocation is over, on every exit path, the path of a script
\* file that cannot be opened included: no runtime is left initialized.
C1_FinalizedOnEveryExit ==
    (pc = "idle" \/ (pc = "crashed" /\ scriptFile = "NULL")) => ~initialized

\* C2: after processFile, a script file that could not be opened has produced
\* the result failure and no script was executed; the result is success only
\* when the file was opened and run.
C2_OpenFailureSignalled ==
    (pc = "idle" /\ runs > 0) =>
        /\ scriptFile = "NULL" => (result = "false" /\ ~executed)
        /\ result = "true" => (scriptFile = "closed" /\ executed)

C4_OutOfRangeAnyBuffer ==
    (IsPatchWithBuffer /\ PatchAddress >= SizeBefore) =>
        /\ lastCall.ret = "NULL"
        /\ lastCall.err \in RangeError
        /\ provider = lastCall.before

\* C4 amended: patch(a, b) with a >= provider.size() leaves the provider
\* unmodified and raises the range error when b is non-empty, the argument
\* error when b is empty.
C4_OutOfRangeNonEmptyBuffer ==
    (IsPatchWithBuffer /\ PatchAddress >= SizeBefore) =>
        /\ lastCall.ret = "NULL"
        /\ provider = lastCall.before
        /\ Len(PatchBuffer) > 0 => lastCall.err \in RangeError
        /\ Len(PatchBuffer) = 0 => lastCall.err \in ArgumentError

\* a non-empty patch at the first address past the end was refused
C4_Witness ==
    /\ IsPatchWithBuffer
    /\ PatchAddress = SizeBefore
    /\ Len(PatchBuffer) > 0
    /\ lastCall.err = OutOfRange
    /\ pyErr = OutOfRange

\* C5: a patch call without a byte buffer, or with an empty one, fails with an
\* argument error and writes nothing, whatever the address and whatever the
\* handler's local variables held.
C5_MissingBufferRejected ==
    (/\ lastCall.op = "patch"
     /\ Len(lastCall.args) \in {1, 2}
     /\ lastCall.args[1].t = "int"
     /\ Len(lastCall.args) = 2 => lastCall.args[2] = PyBytes(<<>>)) =>
        /\ lastCall.ret = "NULL"
        /\ lastCall.err \in ArgumentError
        /\ provider = lastCall.before

\* C6: add_bookmark(address, size, name, comment) with any unsigned 64-bit
\* address and size posts exactly one add-bookmark event carrying the four
\* arguments; a call that omits name or comment raises an argument error and
\* posts no event.
C6_BookmarkPostsSuppliedFields ==
    (/\ lastCall.op = "add_bookmark"
     /\ Len(lastCall.args) \in 2 .. 4
     /\ lastCall.args[1].t = "int" /\ lastCall.args[2].t = "int"
     /\ \A k \in 3 .. Len(lastCall.args) : lastCall.args[k].t = "str") =>
        IF Len(lastCall.args) = 4
        THEN /\ lastCall.ret = "None"
             /\ posted = << [type |-> "AddBookmark",
                             address |-> lastCall.args[1].v,
                             size |-> lastCall.args[2].v,
                             name |-> lastCall.args[3].v,
                             comment |-> lastCall.args[4].v] >>
        ELSE /\ lastCall.ret = "NULL"
             /\ lastCall.err \in ArgumentError
             /\ posted = <<>>

IsStructCall ==
    /\ lastCall.op \in {"add_struct", "add_union"}
    /\ Len(lastCall.args) = 1
    /\ lastCall.args[1].t = "class"

StructClass == lastCall.args[1].v
StructKeyword == IF lastCall.op = "add_struct" THEN "struct" ELSE "union"

\* the class can be instantiated, extends the marker and has annotations
WellFormedClass ==
    /\ StructClass.instantiable
    /\ StructClass.base = MarkerName
    /\ StructClass.annotations # <<>>

StructMembers == StructClass.annotations[1]

ValidMember(m) == m[2].instantiable /\ m[2].base = MarkerName

\* the member lines of a declaration, in declaration order
RECURSIVE DeclarationLines(_)
DeclarationLines(members) ==
    IF members = <<>> THEN ""
    ELSE "   " \o Head(members)[2].name \o " " \o Head(members)[1] \o ";\n"
         \o DeclarationLines(Tail(members))

\* C7: for a class C extending the marker whose annotated members all have
\* types extending the marker (C and the member types being classes that
\* instantiate with no arguments), add_struct(C) posts exactly one
\* append-pattern-code event whose text is "struct C {\n", one line
\* "   Ti fi;\n" per member in declaration order, and "};\n"; add_union(C)
\* posts the same with the keyword "union".
C7_DeclarationText ==
    (/\ IsStructCall
     /\ WellFormedClass
     /\ \A k \in 1 .. Len(StructMembers) : ValidMember(StructMembers[k])) =>
        /\ lastCall.ret = "None"
        /\ lastCall.err = NoError
        /\ posted = << [type |-> "AppendPatternLanguageCode",
                        code |-> StructKeyword \o " " \o StructClass.name \o " {\n"
                                 \o DeclarationLines(StructMembers) \o "};\n"] >>

\* a struct of two members of different types was declared
C7_Witness ==
    /\ lastCall.op = "add_struct"
    /\ Len(posted) = 1
    /\ posted[1].code = "struct C {\n   u32 y;\n   u8 x;\n};\n"

\* C8: for a class (one that instantiates with no arguments) whose immediate
\* base is not the marker, any other base or none, add_struct and add_union
\* raise the type error and post no event.
C8_NotMarkerRaisesTypeError ==
    (IsStructCall /\ StructClass.base # MarkerName) =>
        /\ lastCall.ret = "NULL"
        /\ posted = <<>>
        /\ StructClass.instantiable => lastCall.err = NotImHexType

\* a class with no base at all was refused
C8_Witness ==
    /\ lastCall.op = "add_union"
    /\ Len(lastCall.args) = 1
    /\ lastCall.args[1] = PyClass(ObjectClass)
    /\ lastCall.err \in TypeError
    /\ pyErr = NotImHexType
    /\ posted = <<>>

\* C9: for a class extending the marker with a member, at any position, whose
\* type cannot be instantiated with no arguments or does not extend the
\* marker, add_struct/add_union raise the type error, return it to the
\* runtime, and post no declaration event.
C9_BadMemberRaisesTypeError ==
    (/\ IsStructCall
     /\ WellFormedClass
     /\ \E k \in 1 .. Len(StructMembers) : ~ValidMember(StructMembers[k])) =>
        /\ lastCall.ret = "NULL"
        /\ lastCall.err \in TypeError
        /\ posted = <<>>

\* C10 as stated: the host API module is registered exactly once in the
\* process, before the runtime is initialized and the script executes, and no
\* later invocation registers it again.
C10_RegisteredExactlyOnce ==
    /\ Len(inittab) <= 1
    /\ (initialized \/ executed) => inittab = <<"_imhex">>

\* C10 amended: every processFile invocation registers the host API module
\* exactly once, before it initializes the runtime and before the script
\* executes; after n invocations the table holds n entries for it.
C10_RegisteredOncePerInvocation ==
    /\ Len(inittab) = runs
    /\ \A k \in 1 .. Len(inittab) : inittab[k] = "_imhex"
    /\ initialized => (runs > 0 /\ builtins = {"_imhex"})
    /\ pc = "running" => (initialized /\ "_imhex" \in builtins)

\* the script of a second invocation is making host API calls
C10_Witness ==
    /\ runs = 2
    /\ Len(inittab) = 2
    /\ pc = "running"
    /\ lastCall.op = "get_file_path"
    /\ lastCall.ret = s_filePath

====
